---- MODULE Spec2Model ----
(***************************************************************************)
(* Store inventory management app (src/app.py, src/models.py).             *)
(*                                                                         *)
(* The model follows one installation of the program: the database file    *)
(* (tables brands and products) persists, a process is started, runs the   *)
(* two CSV imports, then the interactive session loop, and ends by quit or *)
(* by an uncaught exception; it may then be started again.                 *)
(*                                                                         *)
(* Texts typed by the operator or read from a CSV cell are records         *)
(* [k, s, v]: s leading '$' characters followed by                         *)
(*   k = "int"   the decimal integer numeral of v          ("5", "-1")     *)
(*   k = "dec"   the numeral with a two-digit fraction of v/100 ("0.29")   *)
(*   k = "mdy"   a month/day/year date, v its day number                   *)
(*   k = "iso"   the str() of a datetime, v its day number                 *)
(*   k = "x"     the letter x                                              *)
(*   k = "empty" the empty text                                            *)
(*   k = "junk"  any other text                            ("abc")         *)
(* Names (product_name, brand_name) are plain strings.                     *)
(***************************************************************************)
EXTENDS Integers, Sequences, FiniteSets, TLC

\* ------------------------------------------------------------------ bounds
MaxBrandRows == 2       \* rows of brands.csv
MaxProductRows == 2     \* rows of inventory.csv
MaxId == 3              \* largest product_id handed out
MaxClock == 2           \* calls of datetime.now() over the whole run
MaxHundredths == 1300   \* largest price numeral (in 1/100) of the price check
MaxPrices == 4          \* products in the store of the mode check

\* --------------------------------------------------------------- constants
Null == -999            \* Python's None / SQL NULL

T(k, s, v) == [k |-> k, s |-> s, v |-> v]

ProductNames == {"p1", "p2"}
BrandNames == {"b1", "b2"}

\* ------------------------------------------------------- pure: validators
RECURSIVE Log2Floor(_)
Log2Floor(n) == IF n < 2 THEN 0 ELSE 1 + Log2Floor(n \div 2)

RECURSIVE Pow2Mod(_, _)
Pow2Mod(k, m) == IF k = 0 THEN 1 % m ELSE (2 * Pow2Mod(k - 1, m)) % m

RECURSIVE Pow2(_)
Pow2(k) == IF k = 0 THEN 1 ELSE 2 * Pow2(k - 1)

RECURSIVE ShiftUp(_, _)
ShiftUp(c, j) == IF c * Pow2(j) >= 100 THEN j ELSE ShiftUp(c, j + 1)

\* binary exponent E of the double nearest to c/100: 2^E <= c/100 < 2^(E+1)
FloatExp(c) == IF c >= 100 THEN Log2Floor(c \div 100) ELSE 0 - ShiftUp(c, 0)

\* int(float(text) * 100) for the numeral of c/100, c >= 0, in IEEE-754
\* binary64 with round-to-nearest-even, exactly:
\*   float(text) = m / 2^k with k = 52 - E, m = round(c * 2^k / 100), so
\*   100 * m = c * 2^k + t, where t is minus the remainder r of c * 2^k by
\*   100 (rounded down) or 100 - r (rounded up);
\*   the product c + t / 2^k is rounded to the doubles around c, which are
\*   ub / 2^k apart below c; int() then truncates.
FloatTimes100Trunc(c) ==
    IF c = 0 THEN 0
    ELSE LET E == FloatExp(c)
             k == 52 - E
             r200 == ((c % 200) * Pow2Mod(k, 200)) % 200
             r == r200 % 100
             qodd == r200 >= 100
             t == IF r < 50 THEN 0 - r
                  ELSE IF r > 50 THEN 100 - r
                  ELSE IF qodd THEN 50 ELSE 0 - 50
             p == Log2Floor(c)
             ub == IF p - E = 6 \/ c = Pow2(p) THEN 64 ELSE 128
         IN  IF t < 0 /\ 2 * (0 - t) > ub THEN c - 1 ELSE c

\* the value, in 1/100, that float(price_str.lstrip('$')) parses; Null when
\* float() raises ValueError
ParseHundredths(txt) ==
    IF txt.k = "int" THEN 100 * txt.v
    ELSE IF txt.k = "dec" THEN txt.v
    ELSE Null

TruncCents(h) == IF h >= 0 THEN FloatTimes100Trunc(h) ELSE 0 - FloatTimes100Trunc(0 - h)

\* clean_price: [val, err]; val = Null is the bare return after the error
clean_price(price_str) ==
    LET h == ParseHundredths(price_str)
    IN  IF h = Null THEN [val |-> Null, err |-> "FormatError"]
        ELSE [val |-> TruncCents(h), err |-> "none"]

\* int(text): Null when int() raises ValueError
ParseInt(txt) == IF txt.k = "int" /\ txt.s = 0 THEN txt.v ELSE Null

\* check_id without the test "item_id in id_options"
check_id_AnyNumber(id_str, id_options) ==
    LET item_id == ParseInt(id_str)
    IN  IF item_id = Null THEN [val |-> Null, err |-> "FormatError"]
        ELSE [val |-> item_id, err |-> "none"]

\* check_id: [val, err]
check_id(id_str, id_options) ==
    LET item_id == ParseInt(id_str)
    IN  IF item_id = Null THEN [val |-> Null, err |-> "FormatError"]
        ELSE IF item_id \in id_options THEN [val |-> item_id, err |-> "none"]
        ELSE [val |-> Null, err |-> "NotFoundError"]

\* check_quantity: [val, err]
check_quantity(qty) ==
    LET qty_int == ParseInt(qty)
    IN  IF qty_int = Null THEN [val |-> Null, err |-> "FormatError"]
        ELSE [val |-> qty_int, err |-> "none"]

\* clean_date: the datetime's day number; Null when it raises (IndexError or
\* ValueError: the text is not month/day/year)
clean_date(date_str) == IF date_str.k = "mdy" /\ date_str.s = 0 THEN date_str.v ELSE Null


\* ------------------------------------------------------------- the store
\* brands:   brand_id   -> brand_name
\* products: product_id -> [name, qty, price, brand, date]
Max(S) == CHOOSE x \in S : \A y \in S : y <= x

Range(f) == {f[i] : i \in DOMAIN f}

\* an Integer primary key without AUTOINCREMENT: SQLite hands out the
\* largest key in the table plus one
NextKey(ids) == IF ids = {} THEN 1 ELSE Max(ids) + 1

BrandsNamed(brs, name) == {b \in DOMAIN brs : brs[b] = name}
ProductsNamed(prods, name) == {p \in DOMAIN prods : prods[p].name = name}

Product(name, qty, price, brand, date) ==
    [name |-> name, qty |-> qty, price |-> price, brand |-> brand, date |-> date]

\* get_brand_name
get_brand_name(brs, brand_id) == IF brand_id \in DOMAIN brs THEN brs[brand_id] ELSE "None"

\* add_brands_csv's row without the test "brand_in_db is None"
AddBrandRow_NoLookup(brs, name) ==
    [brands |-> brs @@ (NextKey(DOMAIN brs) :> name), exc |-> "none"]

\* one row of add_brands_csv: [brands, exc]
AddBrandRow(brs, name) ==
    LET found == BrandsNamed(brs, name)
    IN  IF Cardinality(found) > 1 THEN [brands |-> brs, exc |-> "MultipleResultsFound"]
        ELSE IF found = {} THEN [brands |-> brs @@ (NextKey(DOMAIN brs) :> name), exc |-> "none"]
        ELSE [brands |-> brs, exc |-> "none"]

\* add_brands_csv: the rows of brands.csv from row i on: [brands, exc]
RECURSIVE add_brands_csv(_, _, _)
add_brands_csv(brs, file, i) ==
    IF i > Len(file) THEN [brands |-> brs, exc |-> "none"]
    ELSE LET r == AddBrandRow(brs, file[i])
         IN  IF r.exc # "none" THEN r ELSE add_brands_csv(r.brands, file, i + 1)

\* add_products_csv's row without the test "duplicate_products_in_db.count()
\* == 0"
AddProductRow_NoLookup(prods, brs, row) ==
    LET qty == ParseInt(row.product_quantity)
        price == clean_price(row.product_price).val
        date == clean_date(row.date_updated)
        found == BrandsNamed(brs, row.brand_name)
    IN  IF qty = Null THEN [products |-> prods, exc |-> "ValueError"]
        ELSE IF date = Null THEN [products |-> prods, exc |-> "IndexError"]
        ELSE IF found = {} THEN [products |-> prods, exc |-> "NoResultFound"]
        ELSE [products |-> prods @@ (NextKey(DOMAIN prods) :>
                              Product(row.product_name, qty, price,
                                      CHOOSE b \in found : TRUE, date)),
              exc |-> "none"]

\* one row of add_products_csv: [products, exc]; the keyword arguments of
\* Product(...) are evaluated in the order they are written
AddProductRow(prods, brs, row) ==
    IF ProductsNamed(prods, row.product_name) # {} THEN [products |-> prods, exc |-> "none"]
    ELSE LET qty == ParseInt(row.product_quantity)
             price == clean_price(row.product_price).val
             date == clean_date(row.date_updated)
             found == BrandsNamed(brs, row.brand_name)
         IN  IF qty = Null THEN [products |-> prods, exc |-> "ValueError"]
             ELSE IF date = Null THEN [products |-> prods, exc |-> "IndexError"]
             ELSE IF found = {} THEN [products |-> prods, exc |-> "NoResultFound"]
             ELSE IF Cardinality(found) > 1 THEN [products |-> prods, exc |-> "MultipleResultsFound"]
             ELSE [products |-> prods @@ (NextKey(DOMAIN prods) :>
                                   Product(row.product_name, qty, price,
                                           CHOOSE b \in found : TRUE, date)),
                   exc |-> "none"]

\* add_products_csv: the rows of inventory.csv from row i on: [products, exc]
RECURSIVE add_products_csv(_, _, _, _)
add_products_csv(prods, brs, file, i) ==
    IF i > Len(file) THEN [products |-> prods, exc |-> "none"]
    ELSE LET r == AddProductRow(prods, brs, file[i])
         IN  IF r.exc # "none" THEN r ELSE add_products_csv(r.products, brs, file, i + 1)

\* the rows backup_db writes below the header, in ascending product_id
\* order; csv.writer writes None as the empty text and the rest with str()
NumText(v) == IF v = Null THEN T("empty", 0, 0) ELSE T("int", 0, v)

RECURSIVE SortedIds(_)
SortedIds(ids) ==
    IF ids = {} THEN <<>>
    ELSE LET m == CHOOSE x \in ids : \A y \in ids : x <= y
         IN  <<m>> \o SortedIds(ids \ {m})

BackupRow(prods, p) ==
    [product_id |-> NumText(p),
     product_name |-> prods[p].name,
     product_quantity |-> NumText(prods[p].qty),
     product_price |-> NumText(prods[p].price),
     brand_id |-> NumText(prods[p].brand),
     date_updated |-> T("iso", 0, prods[p].date)]

backup_db(prods) ==
    LET ids == SortedIds(DOMAIN prods)
    IN  [i \in 1..Len(ids) |-> BackupRow(prods, ids[i])]

\* ------------------------------------------------------------ input sets
RECURSIVE SeqsUpTo(_, _)
SeqsUpTo(S, n) ==
    IF n = 0 THEN {<<>>}
    ELSE LET shorter == SeqsUpTo(S, n - 1)
         IN  shorter \cup {Append(f, x) : f \in {g \in shorter : Len(g) = n - 1}, x \in S}

BrandFiles == SeqsUpTo(BrandNames, MaxBrandRows)

CsvRow(name, qty, price, brand) ==
    [product_name |-> name, product_quantity |-> qty, product_price |-> price,
     brand_name |-> brand, date_updated |-> T("mdy", 0, 0)]

ProductRows ==
    { CsvRow("p1", T("int", 0, 2), T("dec", 0, 29), "b1"),
      CsvRow("p2", T("int", 0, -1), T("int", 1, 5), "b2"),
      CsvRow("p2", T("int", 0, 2), T("dec", 0, 29), "zz"),
      CsvRow("p2", T("int", 0, 2), T("junk", 0, 0), "b1") }

ProductFiles == SeqsUpTo(ProductRows, MaxProductRows)

QuantityTexts == {T("junk", 0, 0), T("int", 0, -1), T("int", 0, 2)}
PriceTexts == {T("junk", 0, 0), T("dec", 0, 29)}
BrandIdTexts == {T("junk", 0, 0), T("x", 0, 0), T("int", 0, 1), T("int", 0, 9)}
ProductIdTexts == {T("junk", 0, 0)} \cup {T("int", 0, i) : i \in 1..MaxId}
NoText == T("empty", 0, 0)

\* ----------------------------------------------------------------- state
VARIABLES
    pc,        \* where the process is: "start", "import_products", "menu",
               \* a prompt ("name", "quantity", "price", "brand", "confirm",
               \* "view_id", "product_menu", "delete_confirm"), "quit",
               \* "crashed"
    brands,    \* table brands (its only commit is the one that adds rows)
    products,  \* table products as the session sees it (flushed, maybe
               \* not committed)
    db,        \* table products as committed in inventory.db
    clock,     \* datetime.now()
    choice,    \* app(): the last main-menu choice
    op,        \* the operation in progress: "none", "add", "edit"
    cur,       \* its locals: [name, qty, price, brand, pid]
    id_entered, \* view_product: its local id_str, the text typed at the
               \* prompt (NoText once no statement reads it any more)
    err,       \* the validation error the last step reported, or "none"
    exc,       \* the uncaught exception that ended the process, or "none"
    written,   \* the rows the last step wrote to inventory-backup.csv
    brandsCsv, \* the rows the last step read from brands.csv
    inventoryCsv, \* the rows the last step read from inventory.csv
    deleted,   \* the product_id of the last committed delete (0: none)
    priceIn,   \* price check: the text given to clean_price
    priceOut,  \* price check: what clean_price returned for it
    modeIn,    \* mode check: product_prices, in the order the rows are read
    modeOut,   \* mode check: mode_price
    before,    \* the products table as the session saw it when the add,
               \* edit or delete in progress (or just ended) began
    answer     \* the answer the last step got to a confirmation, or ""

vars == <<pc, brands, products, db, clock, choice, op, cur, id_entered, err, exc,
          written, brandsCsv, inventoryCsv, deleted, priceIn, priceOut, modeIn, modeOut, before, answer>>

NoCur == [name |-> "", qty |-> Null, price |-> Null, brand |-> Null, pid |-> 0]

EmptyTable == [i \in {} |-> 0]

Init ==
    /\ pc = "start"
    /\ brands = EmptyTable
    /\ products = EmptyTable
    /\ db = EmptyTable
    /\ clock = 0
    /\ choice = ""
    /\ op = "none"
    /\ cur = NoCur
    /\ id_entered = NoText
    /\ err = "none"
    /\ exc = "none"
    /\ written = <<>>
    /\ brandsCsv = <<>>
    /\ inventoryCsv = <<>>
    /\ deleted = 0
    /\ priceIn = NoText
    /\ priceOut = [val |-> Null, err |-> "none"]
    /\ modeIn = <<>>
    /\ modeOut = Null
    /\ before = EmptyTable
    /\ answer = ""

priceVars == <<priceIn, priceOut, modeIn, modeOut>>

\* a step outside add, edit and delete
NoOperation ==
    /\ before' = EmptyTable
    /\ answer' = ""

\* the step that begins an add, an edit or a delete
Begin ==
    /\ before' = products
    /\ answer' = ""

\* a step of an add or an edit before its confirmation
Within ==
    /\ answer' = ""
    /\ UNCHANGED before

\* a step that reads and writes no file
NoFiles ==
    /\ written' = <<>>
    /\ brandsCsv' = <<>>
    /\ inventoryCsv' = <<>>

\* an uncaught exception ends the process; the session and its uncommitted
\* changes go with it
Crash(e) ==
    /\ pc' = "crashed"
    /\ exc' = e
    /\ products' = db
    /\ db' = db
    /\ op' = "none"
    /\ cur' = NoCur

\* ----------------------------------------------------- process start-up
\* __main__: add_brands_csv()
AddBrandsCsv ==
    /\ pc = "start"
    /\ NoOperation
    /\ \E file \in BrandFiles :
         /\ brandsCsv' = file
         /\ LET r == add_brands_csv(brands, file, 1)
            IN  IF r.exc = "none"
                THEN /\ brands' = r.brands
                     /\ pc' = "import_products"
                     /\ UNCHANGED <<products, db, exc, op, cur>>
                ELSE /\ Crash(r.exc)
                     /\ UNCHANGED brands
    /\ err' = "none"
    /\ written' = <<>>
    /\ inventoryCsv' = <<>>
    /\ UNCHANGED <<clock, choice, id_entered, deleted, priceVars>>

\* __main__: add_products_csv(), then app() shows the main menu
AddProductsCsv ==
    /\ pc = "import_products"
    /\ NoOperation
    /\ \E file \in ProductFiles :
         /\ inventoryCsv' = file
         /\ LET r == add_products_csv(products, brands, file, 1)
            IN  /\ r.exc = "none" => \A p \in DOMAIN r.products : p <= MaxId
                /\ IF r.exc = "none"
                   THEN /\ products' = r.products
                        /\ db' = r.products
                        /\ pc' = "menu"
                        /\ UNCHANGED <<exc, op, cur>>
                   ELSE Crash(r.exc)
    /\ err' = "none"
    /\ written' = <<>>
    /\ brandsCsv' = <<>>
    /\ UNCHANGED <<brands, clock, choice, id_entered, deleted, priceVars>>

\* the operator runs the program again on the same inventory.db
Restart ==
    /\ pc \in {"quit", "crashed"}
    /\ NoOperation
    /\ pc' = "start"
    /\ exc' = "none"
    /\ err' = "none"
    /\ choice' = ""
    /\ id_entered' = NoText
    /\ NoFiles
    /\ UNCHANGED <<brands, products, db, clock, op, cur, deleted, priceVars>>


\* ------------------------------------------------------- the session loop
\* every step of the session but backup_db
Step ==
    /\ NoFiles
    /\ id_entered' = NoText
    /\ UNCHANGED <<brands, priceVars>>


\* back to app()'s loop, which shows the main menu
ToMenu ==
    /\ pc' = "menu"
    /\ op' = "none"
    /\ cur' = NoCur

\* session.commit()
Commit(prods) ==
    /\ products' = prods
    /\ db' = prods

\* main_menu returns 'n': add_product asks for the name
ChooseNew ==
    /\ pc = "menu"
    /\ Begin
    /\ clock < MaxClock
    /\ NextKey(DOMAIN products) <= MaxId
    /\ choice' = "n"
    /\ pc' = "name"
    /\ op' = "add"
    /\ cur' = NoCur
    /\ err' = "none"
    /\ Step
    /\ UNCHANGED <<products, db, clock, exc, deleted>>

\* add_product: name = input('Name: '); get_quantity_input prompts
EnterName ==
    /\ pc = "name"
    /\ Within
    /\ \E name \in ProductNames : cur' = [cur EXCEPT !.name = name]
    /\ pc' = "quantity"
    /\ err' = "none"
    /\ Step
    /\ UNCHANGED <<products, db, clock, choice, op, exc, deleted>>

\* get_quantity_input: one pass of its loop
EnterQuantity ==
    /\ pc = "quantity"
    /\ Within
    /\ \E quantity \in QuantityTexts :
         LET quantity_checked == check_quantity(quantity)
         IN  /\ err' = quantity_checked.err
             /\ IF quantity_checked.val # Null
                THEN /\ cur' = [cur EXCEPT !.qty = quantity_checked.val]
                     /\ pc' = "price"
                ELSE UNCHANGED <<cur, pc>>
    /\ Step
    /\ UNCHANGED <<products, db, clock, choice, op, exc, deleted>>

\* get_price_input: one pass of its loop; once it returns, get_brand_input
\* lists the brands and formats its prompt with id_options[0]
EnterPrice ==
    /\ pc = "price"
    /\ Within
    /\ \E price \in PriceTexts :
         LET price_cleaned == clean_price(price)
         IN  /\ err' = price_cleaned.err
             /\ IF price_cleaned.val = Null
                THEN UNCHANGED <<cur, pc, op, products, db, exc>>
                ELSE IF DOMAIN brands = {}
                THEN Crash("IndexError")
                ELSE /\ cur' = [cur EXCEPT !.price = price_cleaned.val]
                     /\ pc' = "brand"
                     /\ UNCHANGED <<op, products, db, exc>>
    /\ Step
    /\ UNCHANGED <<clock, choice, deleted>>

\* the rows of a query ordered by date_updated descending that may come first
MostRecent(prods, ids) == {p \in ids : \A q \in ids : prods[q].date <= prods[p].date}

\* get_brand_input: the single pass of its loop (id_error is reset whatever
\* check_id returned); then, in add_product, the duplicate-name branch
\* assigns the inputs to the existing product before asking to confirm
EnterBrand ==
    /\ pc = "brand"
    /\ Within
    /\ \E brand_id_str \in BrandIdTexts :
         LET checked == IF brand_id_str.k = "x" THEN [val |-> Null, err |-> "none"]
                        ELSE check_id(brand_id_str, DOMAIN brands)
             dups == ProductsNamed(products, cur.name)
         IN  /\ err' = checked.err
             /\ IF op = "add" /\ dups # {}
                THEN \E product \in MostRecent(products, dups) :
                        /\ clock' = clock + 1
                        /\ products' = [products EXCEPT ![product] =
                               Product(cur.name, cur.qty, cur.price, checked.val, clock + 1)]
                        /\ cur' = [cur EXCEPT !.brand = checked.val, !.pid = product]
                ELSE /\ cur' = [cur EXCEPT !.brand = checked.val]
                     /\ UNCHANGED <<products, clock>>
    /\ pc' = "confirm"
    /\ Step
    /\ UNCHANGED <<db, choice, op, exc, deleted>>

\* confirm_product_info and what add_product or edit_product does with the
\* answer
Confirm ==
    /\ pc = "confirm"
    /\ UNCHANGED before
    /\ \E confirm \in {"y", "n"} :
         /\ answer' = confirm
         /\ IF confirm # "y"
            THEN UNCHANGED <<products, db, clock>>
            ELSE IF op = "add" /\ cur.pid # 0
            THEN /\ Commit(products)
                 /\ UNCHANGED clock
            ELSE IF op = "add"
            THEN /\ Commit(products @@ (NextKey(DOMAIN products) :>
                           Product(cur.name, cur.qty, cur.price, cur.brand, clock + 1)))
                 /\ clock' = clock + 1
            ELSE /\ Commit([products EXCEPT ![cur.pid] =
                           Product(products[cur.pid].name, cur.qty, cur.price, cur.brand, clock + 1)])
                 /\ clock' = clock + 1
    /\ ToMenu
    /\ err' = "none"
    /\ Step
    /\ UNCHANGED <<choice, exc, deleted>>

\* main_menu returns 'v': view_product lists the ids and formats its prompt
\* with id_options[0]
ChooseView ==
    /\ pc = "menu"
    /\ NoOperation
    /\ choice' = "v"
    /\ IF DOMAIN products = {}
       THEN Crash("IndexError")
       ELSE /\ pc' = "view_id"
            /\ UNCHANGED <<products, db, op, cur, exc>>
    /\ err' = "none"
    /\ Step
    /\ UNCHANGED <<clock, deleted>>

\* view_product: the single pass of its loop (id_error is reset whatever
\* check_id returned), the lookup of the product and its display
EnterProductId ==
    /\ pc = "view_id"
    /\ NoOperation
    /\ \E typed \in ProductIdTexts :
         LET id_cleaned == check_id(typed, DOMAIN products)
         IN  /\ id_entered' = typed
             /\ err' = id_cleaned.err
             /\ IF id_cleaned.val \notin DOMAIN products
                THEN Crash("AttributeError")
                ELSE IF products[id_cleaned.val].price = Null
                THEN Crash("TypeError")
                ELSE /\ pc' = "product_menu"
                     /\ cur' = [NoCur EXCEPT !.pid = id_cleaned.val]
                     /\ UNCHANGED <<products, db, op, exc>>
    /\ NoFiles
    /\ UNCHANGED <<brands, priceVars>>
    /\ UNCHANGED <<clock, choice, deleted>>

\* product_menu returns 'e': edit_product prompts for the quantity
ChooseEdit ==
    /\ pc = "product_menu"
    /\ Begin
    /\ clock < MaxClock
    /\ pc' = "quantity"
    /\ op' = "edit"
    /\ err' = "none"
    /\ Step
    /\ UNCHANGED <<products, db, clock, choice, cur, exc, deleted>>

\* product_menu returns 'd': view_product asks to confirm the delete
ChooseDelete ==
    /\ pc = "product_menu"
    /\ Begin
    /\ pc' = "delete_confirm"
    /\ err' = "none"
    /\ Step
    /\ UNCHANGED <<products, db, clock, choice, op, cur, exc, deleted>>

\* product_menu returns 'q'
ChooseReturn ==
    /\ pc = "product_menu"
    /\ NoOperation
    /\ ToMenu
    /\ err' = "none"
    /\ Step
    /\ UNCHANGED <<products, db, clock, choice, exc, deleted>>

\* view_product: the answer to 'Are you sure you want to delete'
ConfirmDelete ==
    /\ pc = "delete_confirm"
    /\ UNCHANGED before
    /\ \E confirm \in {"y", "n"} :
         /\ answer' = confirm
         /\ IF confirm = "y"
            THEN /\ Commit([p \in DOMAIN products \ {cur.pid} |-> products[p]])
                 /\ deleted' = cur.pid
            ELSE UNCHANGED <<products, db, deleted>>
    /\ ToMenu
    /\ err' = "none"
    /\ Step
    /\ UNCHANGED <<clock, choice, exc>>


\* the exception analyze_products raises on the table, or "none"; in the
\* order of its statements: mean() (line 481), most_common_brand[0] (line
\* 514), quantiles() (line 568), most_common_brand_in_db.brand_name (line
\* 578). statistics.quantiles raises on a single data point up to Python
\* 3.12 and accepts it from 3.13 on: single_ok tells which library runs.
AnalyzeExc(prods, brs, single_ok) ==
    LET branded == {p \in DOMAIN prods : prods[p].brand # Null /\ prods[p].brand # 0}
    IN  IF DOMAIN prods = {} THEN "StatisticsError"
        ELSE IF \E p \in DOMAIN prods : prods[p].price = Null THEN "TypeError"
        ELSE IF branded = {} THEN "TypeError"
        ELSE IF Cardinality(DOMAIN prods) < 2 /\ ~single_ok THEN "StatisticsError"
        ELSE IF \E p \in branded : prods[p].brand \notin DOMAIN brs THEN "AttributeError"
        ELSE "none"

\* main_menu returns 'a': analyze_products
Analyze ==
    /\ pc = "menu"
    /\ NoOperation
    /\ choice' = "a"
    /\ \E single_ok \in BOOLEAN :
         LET e == AnalyzeExc(products, brands, single_ok)
         IN  IF e # "none"
             THEN Crash(e)
             ELSE UNCHANGED <<pc, products, db, op, cur, exc>>
    /\ err' = "none"
    /\ Step
    /\ UNCHANGED <<clock, deleted>>

\* main_menu returns 'b': backup_db
BackupDb ==
    /\ pc = "menu"
    /\ NoOperation
    /\ choice' = "b"
    /\ written' = backup_db(products)
    /\ brandsCsv' = <<>>
    /\ inventoryCsv' = <<>>
    /\ err' = "none"
    /\ UNCHANGED <<pc, brands, products, db, clock, op, cur, id_entered, exc, deleted, priceVars>>

\* main_menu returns 'l': list_products formats every price
ListProducts ==
    /\ pc = "menu"
    /\ NoOperation
    /\ choice' = "l"
    /\ IF \E p \in DOMAIN products : products[p].price = Null
       THEN Crash("TypeError")
       ELSE UNCHANGED <<pc, products, db, op, cur, exc>>
    /\ err' = "none"
    /\ Step
    /\ UNCHANGED <<clock, deleted>>

\* main_menu returns 'r': list_brands
ListBrands ==
    /\ pc = "menu"
    /\ NoOperation
    /\ choice' = "r"
    /\ err' = "none"
    /\ Step
    /\ UNCHANGED <<pc, products, db, clock, op, cur, exc, deleted>>

\* main_menu returns 'q': app() leaves its loop and the process ends; what
\* the session had not committed is lost
Quit ==
    /\ pc = "menu"
    /\ NoOperation
    /\ choice' = "q"
    /\ pc' = "quit"
    /\ products' = db
    /\ err' = "none"
    /\ Step
    /\ UNCHANGED <<db, clock, op, cur, exc, deleted>>

Next ==
    \/ AddBrandsCsv
    \/ AddProductsCsv
    \/ Restart
    \/ ChooseNew
    \/ EnterName
    \/ EnterQuantity
    \/ EnterPrice
    \/ EnterBrand
    \/ Confirm
    \/ ChooseView
    \/ EnterProductId
    \/ ChooseEdit
    \/ ChooseDelete
    \/ ChooseReturn
    \/ ConfirmDelete
    \/ Analyze
    \/ BackupDb
    \/ ListProducts
    \/ ListBrands
    \/ Quit

Spec == Init /\ [][Next]_vars

TypeOK ==
    /\ pc \in {"check_price", "checked_price", "check_mode", "checked_mode", "start", "import_products", "menu", "name", "quantity", "price", "brand",
               "confirm", "view_id", "product_menu", "delete_confirm", "quit", "crashed"}
    /\ clock \in 0..MaxClock
    /\ DOMAIN products \subseteq 1..MaxId
    /\ (pc = "crashed") = (exc # "none")


\* ------------------------------------------------- clean_price on its own
PriceCheckTexts ==
    {T("dec", s, v) : s \in 0..1, v \in 0..MaxHundredths}
    \cup {T("int", s, v) : s \in 0..1, v \in 0..(MaxHundredths \div 100)}
    \cup {T("junk", s, 0) : s \in 0..1}

InitPrice ==
    /\ pc = "check_price"
    /\ brands = EmptyTable
    /\ products = EmptyTable
    /\ db = EmptyTable
    /\ clock = 0
    /\ choice = ""
    /\ op = "none"
    /\ cur = NoCur
    /\ id_entered = NoText
    /\ err = "none"
    /\ exc = "none"
    /\ written = <<>>
    /\ brandsCsv = <<>>
    /\ inventoryCsv = <<>>
    /\ deleted = 0
    /\ priceIn \in PriceCheckTexts
    /\ priceOut = [val |-> Null, err |-> "none"]
    /\ modeIn = <<>>
    /\ modeOut = Null
    /\ before = EmptyTable
    /\ answer = ""

CleanPrice ==
    /\ pc = "check_price"
    /\ priceOut' = clean_price(priceIn)
    /\ pc' = "checked_price"
    /\ UNCHANGED <<brands, products, db, clock, choice, op, cur, id_entered, err, exc,
                   written, brandsCsv, inventoryCsv, deleted, priceIn, modeIn, modeOut,
                   before, answer>>

NextPrice == CleanPrice

SpecPrice == InitPrice /\ [][NextPrice]_vars

\* ---------------------------------------------------------------- claims
Prompts == {"quantity", "price", "brand", "view_id"}

\* C1: no validation error is fatal: a step that reports a validation error
\* (non-numeric or unknown id, non-numeric quantity or price) never leaves
\* the process crashed.
C1_NoFatalValidationError == err # "none" => pc # "crashed"

\* C2: each of the four prompts is retried by its caller on a failed
\* validation: a step at a prompt that reports a validation error stays at
\* the same prompt, so the caller proceeds only with a valid or cancelled
\* answer.
C2_PromptRetried == [][(pc \in Prompts /\ err' # "none") => pc' = pc]_vars

\* C3: once a product has been deleted, choosing view-by-id and entering its
\* former id ends in the not-found error, in every store: the choice leads
\* to the id prompt, and the former id typed there is reported as not found.
C3_DeletedIdNotFound ==
    [][(deleted # 0 /\ deleted \notin DOMAIN products) =>
          /\ (pc = "menu" /\ choice' = "v") => pc' = "view_id"
          /\ (pc = "view_id" /\ id_entered' = T("int", 0, deleted)) => err' = "NotFoundError"
      ]_vars

\* C4: clean_price returns round(value * 100) cents for every numeral with
\* at most two decimals, with or without a leading currency symbol, and a
\* format error and no value for a non-numeric text.
C4_PriceRoundsToCents ==
    pc = "checked_price" =>
        IF ParseHundredths(priceIn) = Null
        THEN priceOut = [val |-> Null, err |-> "FormatError"]
        ELSE priceOut = [val |-> ParseHundredths(priceIn), err |-> "none"]

\* C5: in every reachable store, as the session sees it and as committed,
\* every product's brand_id is null or the id of an existing brand.
C5_BrandIdReferencesBrand ==
    /\ \A p \in DOMAIN products : products[p].brand = Null \/ products[p].brand \in DOMAIN brands
    /\ \A p \in DOMAIN db : db[p].brand = Null \/ db[p].brand \in DOMAIN brands

\* C5 witness: the committed store holds a product the operator added or
\* edited with an accepted brand id next to one without a brand.
C5_Witness ==
    /\ pc = "menu"
    /\ \E p \in DOMAIN db : db[p].date > 0 /\ db[p].brand \in DOMAIN brands
    /\ \E q \in DOMAIN db : db[q].date > 0 /\ db[q].brand = Null

\* C6: in every reachable store every product's quantity is an integer
\* greater than or equal to 0.
C6_QuantityNonNegative ==
    /\ \A p \in DOMAIN products : products[p].qty >= 0
    /\ \A p \in DOMAIN db : db[p].qty >= 0

\* C7: the brands import never creates a row for a name that already has
\* one, the existing row keeps its brand_id, and there is at most one brand
\* row per name after any number of imports.
C7_BrandImportIdempotent ==
    [][brands' # brands =>
          /\ \A b \in DOMAIN brands : b \in DOMAIN brands' /\ brands'[b] = brands[b]
          /\ \A name \in BrandNames :
               /\ BrandsNamed(brands, name) # {} => BrandsNamed(brands', name) = BrandsNamed(brands, name)
               /\ Cardinality(BrandsNamed(brands', name)) <= 1
      ]_vars

\* C7 witness: an import of a file that names b2 twice, into a store where
\* b2 already had id 1 from an earlier run, has left b2 its one row.
C7_Witness ==
    /\ pc = "import_products"
    /\ brandsCsv = <<"b2", "b2">>
    /\ brands = (1 :> "b2") @@ (2 :> "b1")

\* a row of inventory.csv that add_products_csv can insert
RowInsertable(row) ==
    /\ ParseInt(row.product_quantity) # Null
    /\ clean_date(row.date_updated) # Null
    /\ BrandsNamed(brands, row.brand_name) # {}

\* C8: an inventory.csv row with an unknown brand_name fails alone: after
\* the import every insertable row of the same file has its product
\* committed.
C8_UnknownBrandFailsOneRow ==
    (\E i \in 1..Len(inventoryCsv) : BrandsNamed(brands, inventoryCsv[i].brand_name) = {}) =>
        \A j \in 1..Len(inventoryCsv) :
            RowInsertable(inventoryCsv[j]) => ProductsNamed(db, inventoryCsv[j].product_name) # {}

\* C9: with no products in the store, choosing the analysis report raises
\* nothing and returns to the main menu.
C9_EmptyAnalysisGuarded ==
    [][(pc = "menu" /\ DOMAIN products = {} /\ choice' = "a") => (pc' = "menu" /\ exc' = "none")]_vars

\* the header-adapted backup rows as add_products_csv reads them
CellString(txt) == IF txt.k = "int" THEN ToString(txt.v) ELSE ""

AdaptHeaders(rows) ==
    [i \in 1..Len(rows) |->
        [product_name |-> rows[i].product_name,
         product_quantity |-> rows[i].product_quantity,
         product_price |-> rows[i].product_price,
         brand_name |-> CellString(rows[i].brand_id),
         date_updated |-> rows[i].date_updated]]

Reimported(rows) ==
    LET r == add_products_csv(EmptyTable, brands, AdaptHeaders(rows), 1)
    IN  IF r.exc = "none" THEN r.products ELSE EmptyTable

Tuples(prods) ==
    {<<prods[p].name, prods[p].qty, prods[p].price, prods[p].brand>> : p \in DOMAIN prods}

\* C10: the rows backup_db has just written, imported into an empty
\* products table, give the tuples (name, quantity, price, brand_id) of the
\* store they were exported from.
C10_BackupRoundTrip ==
    (pc = "menu" /\ choice = "b") => Tuples(Reimported(written)) = Tuples(products)


\* C11: with at least one product in the store the analysis report runs to
\* completion and returns to the main menu, also with a single product and
\* with no product that has a brand.
C11_AnalysisCompletes ==
    [][(pc = "menu" /\ DOMAIN products # {} /\ choice' = "a") => (pc' = "menu" /\ exc' = "none")]_vars


\* ------------------------------------------------ statistics.mode on its own
\* how often x occurs in data
Count(data, x) == Cardinality({i \in DOMAIN data : data[i] = x})

\* mode with ">=" for ">": the last of the equally frequent values wins
RECURSIVE mode_LastOfTies(_)
mode_LastOfTies(data) ==
    IF Len(data) = 1 THEN data[1]
    ELSE LET rest == mode_LastOfTies(SubSeq(data, 1, Len(data) - 1))
             last == data[Len(data)]
         IN  IF Count(data, last) >= Count(data, rest) THEN last ELSE rest

\* statistics.mode(data), data not empty: Counter(iter(data)).most_common(1),
\* that is max() by count over the values in the order of their first
\* occurrence; max() keeps the first of equal maxima. FirstBest(data, n) is
\* that maximum over the values that occur among the first n elements.
RECURSIVE FirstBest(_, _)
FirstBest(data, n) ==
    IF n = 1 THEN data[1]
    ELSE LET best == FirstBest(data, n - 1)
         IN  IF Count(data, data[n]) > Count(data, best) THEN data[n] ELSE best

mode(data) == FirstBest(data, Len(data))

ModePrices == {28, 500, 1299}

PriceLists == SeqsUpTo(ModePrices, MaxPrices) \ {<<>>}

InitMode ==
    /\ pc = "check_mode"
    /\ brands = EmptyTable
    /\ products = EmptyTable
    /\ db = EmptyTable
    /\ clock = 0
    /\ choice = ""
    /\ op = "none"
    /\ cur = NoCur
    /\ id_entered = NoText
    /\ err = "none"
    /\ exc = "none"
    /\ written = <<>>
    /\ brandsCsv = <<>>
    /\ inventoryCsv = <<>>
    /\ deleted = 0
    /\ priceIn = NoText
    /\ priceOut = [val |-> Null, err |-> "none"]
    /\ modeIn \in PriceLists
    /\ modeOut = Null
    /\ before = EmptyTable
    /\ answer = ""

\* analyze_products: mode_price = mode(product_prices)
ModePrice ==
    /\ pc = "check_mode"
    /\ modeOut' = mode(modeIn)
    /\ pc' = "checked_mode"
    /\ UNCHANGED <<brands, products, db, clock, choice, op, cur, id_entered, err, exc,
                   written, brandsCsv, inventoryCsv, deleted, priceIn, priceOut, modeIn,
                   before, answer>>

NextMode == ModePrice

SpecMode == InitMode /\ [][NextMode]_vars

MostFrequent(data) == {x \in Range(data) : \A y \in Range(data) : Count(data, y) <= Count(data, x)}

FirstIndex(data, x) == CHOOSE i \in DOMAIN data : data[i] = x /\ \A j \in 1..(i - 1) : data[j] # x

\* C12 as stated: the reported mode is a most frequent price and, among
\* equally frequent prices, the smallest, whatever the order of the rows.
C12_ModeSmallestOfTies ==
    pc = "checked_mode" =>
        /\ modeOut \in MostFrequent(modeIn)
        /\ \A x \in MostFrequent(modeIn) : modeOut <= x

\* C12 amended: the reported mode is a most frequent price and, among equally
\* frequent prices, the one that occurs first in the order the product rows
\* are read.
C12_ModeFirstOfTies ==
    pc = "checked_mode" =>
        /\ modeOut \in MostFrequent(modeIn)
        /\ \A x \in MostFrequent(modeIn) : FirstIndex(modeIn, modeOut) <= FirstIndex(modeIn, x)

\* C12 witness: two prices tie, the larger one is read first and is reported.
C12_Witness ==
    /\ pc = "checked_mode"
    /\ modeIn = <<500, 28, 500, 28>>
    /\ modeOut = 500


\* C13: a declined confirmation leaves the store unchanged: after any answer
\* but 'y' to the confirmation of an add, an edit or a delete, the session
\* sees every product as it was when the operation began, and nothing
\* uncommitted is left for a later commit to write.
C13_DeclineChangesNothing ==
    (pc = "menu" /\ answer = "n") => (products = before /\ products = db)


UniqueNames(prods) == \A p, q \in DOMAIN prods : prods[p].name = prods[q].name => p = q

\* C14: starting from an empty store, no two product rows ever share a
\* product_name, in the session's view and in the committed table.
C14_ProductNamesUnique == UniqueNames(products) /\ UniqueNames(db)

\* C14 witness: an add of a name that already exists has been confirmed and
\* committed: it changed the existing product and created no row.
C14_Witness ==
    /\ pc = "menu"
    /\ choice = "n"
    /\ answer = "y"
    /\ DOMAIN db = DOMAIN before
    /\ db # before
    /\ \E i, j \in 1..MaxId : i # j /\ i \in DOMAIN db /\ j \in DOMAIN db

====
